---- MODULE Spec2Model ----
(***************************************************************************)
(* Model of train.py: a straight-line batch job that reads params.yaml,    *)
(* loads and splits the diabetes dataset, fits an ElasticNet, scores it on *)
(* the holdout partition, writes metrics.yaml and dumps model.joblib.      *)
(* Every statement of the script is one action; every statement that       *)
(* calls into the filesystem or a library may raise, which ends the run.   *)
(*                                                                         *)
(* Numbers are fixed point.  alpha is in whole units, l1_ratio in halves   *)
(* (0, 1, 2 stand for 0.0, 0.5, 1.0), coef_ in units of 1/WS, intercept_   *)
(* and predictions in units of 1/(n*WS) for n training rows, r2 in units   *)
(* of 1/RS.                                                                *)
(***************************************************************************)
EXTENDS Integers, Sequences, FiniteSets, TLC

\* ---------------------------------------------------------------- bounds
MaxAlpha == 2
MaxRuns == 2
NSeeds == 3

\* ------------------------------------------------------ fixed point scales
L1Den == 2
WS == 10
RS == 100

\* --------------------------------------------------------------- values
\* Python's None.
None == [None |-> TRUE]

Alphas == 0..MaxAlpha
L1Ratios == 0..L1Den
Seeds == 0..(NSeeds - 1)

PARAMS == "params.yaml"
METRICS == "metrics.yaml"
MODEL == "model.joblib"
Files == {PARAMS, METRICS, MODEL}

\* ------------------------------------------------------------ yaml text
\* A YAML document of top-level scalar keys is a sequence of <<key, value>>
\* lines; a mapping is a function from its keys to their values.
KeyOrder == <<"alpha", "coef_", "intercept_", "l1_ratio", "r2">>

Rank(k) == CHOOSE i \in 1..Len(KeyOrder) : KeyOrder[i] = k

RECURSIVE SortedKeys(_)
SortedKeys(S) ==
    IF S = {} THEN <<>>
    ELSE LET k == CHOOSE a \in S : \A b \in S : Rank(a) <= Rank(b)
         IN  <<k>> \o SortedKeys(S \ {k})

\* yaml.safe_load: later lines override earlier ones with the same key;
\* a document that is not well formed raises.
RECURSIVE LoadLines(_)
LoadLines(text) ==
    IF text = <<>> THEN <<>>
    ELSE LET n    == Len(text)
             rest == LoadLines(SubSeq(text, 1, n - 1))
             k    == text[n][1]
         IN  [x \in (DOMAIN rest) \cup {k} |-> IF x = k THEN text[n][2] ELSE rest[x]]

safe_load(text) == LoadLines(text)

\* yaml.dump: one "key: value" line per key, keys sorted.
yaml_dump(mapping) ==
    LET ks == SortedKeys(DOMAIN mapping)
    IN  [i \in 1..Len(ks) |-> <<ks[i], mapping[ks[i]]>>]

\* ------------------------------------------------------------- dataset
\* load_diabetes(): a fixed table, one feature column and the target.
load_diabetes == [data |-> <<0, 1, 2, 3, 4, 5>>, target |-> <<1, 3, 2, 5, 4, 7>>]

\* numpy's permutation of range(6) for each seed of the generator.
Permutation(seed) ==
    CASE seed = 0 -> <<5, 2, 1, 3, 0, 4>>
      [] seed = 1 -> <<2, 1, 4, 0, 3, 5>>
      [] OTHER    -> <<(seed + 1) % 6, (seed + 3) % 6, seed % 6,
                       (seed + 5) % 6, (seed + 2) % 6, (seed + 4) % 6>>

\* random_state=None, written as a number no seed can be.
Unseeded == -1

\* check_random_state: an int seeds a fresh generator, None uses the
\* global generator, whose state the script does not control.
check_random_state(rs) ==
    IF rs = Unseeded THEN Seeds ELSE {rs}


\* train_test_split called without random_state.
random_state_unseeded == Unseeded

\* The random_state train.py passes to train_test_split.
random_state == 0

SplitSeeds == check_random_state(random_state)

Ceil(a, b) == (a + b - 1) \div b

\* train_test_split with the default test_size of 0.25: the first
\* ceil(0.25 * n) rows of the permutation are the test rows, the rest train.
train_test_split(X, y, seed) ==
    LET n      == Len(X)
        n_test == Ceil(n, 4)
        perm   == Permutation(seed)
        test   == [i \in 1..n_test |-> perm[i] + 1]
        train  == [i \in 1..(n - n_test) |-> perm[n_test + i] + 1]
    IN  [X_train |-> [i \in 1..Len(train) |-> X[train[i]]],
         X_test  |-> [i \in 1..Len(test)  |-> X[test[i]]],
         y_train |-> [i \in 1..Len(train) |-> y[train[i]]],
         y_test  |-> [i \in 1..Len(test)  |-> y[test[i]]]]

\* ---------------------------------------------------------- elastic net
RECURSIVE Sum(_)
Sum(s) == IF s = <<>> THEN 0 ELSE s[1] + Sum(Tail(s))

Dot(a, b) == Sum([i \in 1..Len(a) |-> a[i] * b[i]])

\* Soft thresholding operator of the coordinate descent update.
Soft(z, t) == IF z > t THEN z - t ELSE IF z < -t THEN z + t ELSE 0

\* ElasticNet(alpha=..., l1_ratio=...): the constructor only stores its
\* arguments.
ElasticNet(alpha, l1_ratio) == [alpha |-> alpha, l1_ratio |-> l1_ratio]

\* ElasticNet.fit with an intercept on one feature: the minimiser of
\*   1/(2n) |y - Xw - b|^2 + alpha*l1_ratio*|w| + alpha*(1-l1_ratio)/2 * w^2
\* is w = Soft(cov, alpha*l1_ratio) / (var + alpha*(1-l1_ratio)) and
\* b = mean(y) - w * mean(X).
fit(model, X, y) ==
    LET n    == Len(X)
        A    == n * Dot(X, y) - Sum(X) * Sum(y)
        B    == n * Dot(X, X) - Sum(X) * Sum(X)
        num  == Soft(L1Den * A, n * n * model.alpha * model.l1_ratio)
        den  == L1Den * B + n * n * model.alpha * (L1Den - model.l1_ratio)
        coef == (num * WS) \div den
    IN  [alpha      |-> model.alpha,
         l1_ratio   |-> model.l1_ratio,
         coef_      |-> coef,
         intercept_ |-> (WS * Sum(y) - coef * Sum(X)) \div n]

\* predict: X * coef_ + intercept_, in units of 1/WS.
predict(model, X) ==
    [i \in 1..Len(X) |-> model.coef_ * X[i] + model.intercept_]

\* score: the coefficient of determination 1 - SS_res/SS_tot as a numpy
\* float64 scalar.
score(model, X, y) ==
    LET m     == Len(y)
        yhat  == predict(model, X)
        res   == [i \in 1..m |-> WS * y[i] - yhat[i]]
        SSres == Dot(res, res)
        SStot == m * Dot(y, y) - Sum(y) * Sum(y)
    IN  [dtype |-> "float64",
         value |-> RS - (RS * m * SSres) \div (WS * WS * SStot)]


\* .item() replaced by a rounding to one decimal.
item_rounded(scalar) == (scalar.value \div 10) * 10

\* numpy scalar .item(): the value as a native Python float.
item(scalar) == scalar.value

\* ----------------------------------------------------------------- joblib

\* A pickle that leaves out the fitted coefficients.
joblib_dump_params_only(model) ==
    << <<"alpha", model.alpha>>, <<"l1_ratio", model.l1_ratio>> >>

\* joblib.dump pickles the estimator's attribute dictionary, one
\* <<attribute, value>> entry after the other; joblib.load rebuilds it.
joblib_dump(model) ==
    LET ks == SortedKeys(DOMAIN model)
    IN  [i \in 1..Len(ks) |-> <<ks[i], model[ks[i]]>>]

joblib_load(bytes) == LoadLines(bytes)

Prefixes(s) == {SubSeq(s, 1, k) : k \in 0..(Len(s) - 1)}

\* ------------------------------------------------------------ filesystem
\* A file is absent, stale (left by something before this run), empty
\* (truncated by open(..., "w")), partial (a write raised midway) or
\* complete (a write of this run finished).
File(state, text) == [state |-> state, text |-> text]

NoFile == File("absent", <<>>)

Absent == -1

\* The params.yaml documents a run may find: each key present or not.
ParamLines(a, l) ==
    (IF a = Absent THEN <<>> ELSE << <<"alpha", a>> >>) \o
    (IF l = Absent THEN <<>> ELSE << <<"l1_ratio", l>> >>)

\* A document with a line that is not valid YAML.
MalformedText == << <<"?", 0>> >>

IsWellFormed(text) == \A i \in 1..Len(text) : text[i][1] # "?"

ParamsFiles ==
    {NoFile, File("stale", MalformedText)} \cup
    {File("stale", ParamLines(a, l)) :
        a \in Alphas \cup {Absent}, l \in L1Ratios \cup {Absent}}

StaleMetrics == File("stale", << <<"r2", 0>> >>)
StaleModel == File("stale", << <<"alpha", 0>> >>)

Age(f) == IF f.state = "absent" THEN f ELSE File("stale", f.text)

\* ------------------------------------------------------------------ state
VARIABLES pc, fs, handles, params, data, X_train, X_test, y_train, y_test,
          regr, metrics, r2, log, run, prev

split == <<X_train, X_test, y_train, y_test>>
vars == <<pc, fs, handles, params, data, X_train, X_test, y_train, y_test,
          regr, metrics, r2, log, run, prev>>

Terminal == {"done", "aborted"}


\* The script with the evaluation moved before the fit.
Program_score_before_fit ==
    <<"open_params", "safe_load", "load_diabetes", "train_test_split",
      "ElasticNet", "metrics", "score", "item", "fit",
      "open_metrics", "yaml_dump", "joblib_dump">>

\* The script with the model saved before the metrics.
Program_model_before_metrics ==
    <<"open_params", "safe_load", "load_diabetes", "train_test_split",
      "ElasticNet", "fit", "metrics", "score", "item",
      "joblib_dump", "open_metrics", "yaml_dump">>

\* The statements of train.py in program order (lines 9 to 28).
Program ==
    <<"open_params", "safe_load", "load_diabetes", "train_test_split",
      "ElasticNet", "fit", "metrics", "score", "item",
      "open_metrics", "yaml_dump", "joblib_dump">>

Index(step) == CHOOSE i \in 1..Len(Program) : Program[i] = step

\* The statement control reaches when `step` returns normally.
After(step) ==
    IF Index(step) = Len(Program) THEN "done" ELSE Program[Index(step) + 1]

Event(step, ok) == [step |-> step, ok |-> ok]

\* The interpreter state when the script starts.
Fresh ==
    /\ pc = Program[1]
    /\ handles = {}
    /\ params = None
    /\ data = None
    /\ X_train = <<>> /\ X_test = <<>> /\ y_train = <<>> /\ y_test = <<>>
    /\ regr = None
    /\ metrics = None
    /\ r2 = None
    /\ log = <<>>

Init ==
    /\ Fresh
    /\ run = 1
    /\ prev = None
    /\ \E pf \in ParamsFiles, mf \in {NoFile, StaleMetrics}, jf \in {NoFile, StaleModel} :
          fs = [f \in Files |-> IF f = PARAMS THEN pf ELSE IF f = METRICS THEN mf ELSE jf]


\* The exception is caught and the script goes on.
Raise_swallowed(step) ==
    /\ pc' = IF Index(step) = Len(Program) THEN "done" ELSE Program[Index(step) + 1]
    /\ log' = Append(log, [step |-> step, ok |-> FALSE])

\* An uncaught exception in `step`: the traceback is printed and the
\* interpreter exits; nothing in train.py catches anything.
Raise(step) ==
    /\ pc' = "aborted"
    /\ log' = Append(log, Event(step, FALSE))

\* `step` returned normally: control passes to the statement after it.
Goto(step) ==
    /\ pc' = After(step)
    /\ log' = Append(log, Event(step, TRUE))

\* line 9: open("params.yaml")
OpenParams ==
    /\ pc = "open_params"
    /\ \/ /\ fs[PARAMS].state # "absent"
          /\ handles' = handles \cup {PARAMS}
          /\ Goto("open_params")
       \/ /\ handles' = handles
          /\ Raise("open_params")
    /\ UNCHANGED <<fs, params, data, split, regr, metrics, r2, run, prev>>


\* safe_load on a handle opened without a with block: closed only when
\* safe_load returns.
SafeLoad_no_with ==
    /\ pc = "safe_load"
    /\ PARAMS \in handles
    /\ \/ /\ IsWellFormed(fs[PARAMS].text)
          /\ params' = safe_load(fs[PARAMS].text)
          /\ handles' = handles \ {PARAMS}
          /\ Goto("safe_load")
       \/ /\ params' = params
          /\ handles' = handles
          /\ Raise("safe_load")
    /\ UNCHANGED <<fs, data, split, regr, metrics, r2, run, prev>>

\* line 10: params = yaml.safe_load(f), then the with block closes f,
\* also when safe_load raises.
SafeLoad ==
    /\ pc = "safe_load"
    /\ PARAMS \in handles
    /\ \/ /\ IsWellFormed(fs[PARAMS].text)
          /\ params' = safe_load(fs[PARAMS].text)
          /\ Goto("safe_load")
       \/ /\ params' = params
          /\ Raise("safe_load")
    /\ handles' = handles \ {PARAMS}
    /\ UNCHANGED <<fs, data, split, regr, metrics, r2, run, prev>>

\* line 13: data = load_diabetes()
LoadData ==
    /\ pc = "load_diabetes"
    /\ \/ /\ data' = load_diabetes
          /\ Goto("load_diabetes")
       \/ /\ data' = data
          /\ Raise("load_diabetes")
    /\ UNCHANGED <<fs, handles, params, split, regr, metrics, r2, run, prev>>

\* line 14: X_train, X_test, y_train, y_test = train_test_split(..., random_state=0)
Split ==
    /\ pc = "train_test_split"
    /\ \/ \E seed \in SplitSeeds :
             LET sp == train_test_split(data.data, data.target, seed)
             IN  /\ X_train' = sp.X_train
                 /\ X_test' = sp.X_test
                 /\ y_train' = sp.y_train
                 /\ y_test' = sp.y_test
                 /\ Goto("train_test_split")
       \/ /\ UNCHANGED split
          /\ Raise("train_test_split")
    /\ UNCHANGED <<fs, handles, params, data, regr, metrics, r2, run, prev>>

\* params[key]: KeyError when the key is missing, TypeError when the
\* document was empty; either way the lookup raises.
HasKey(mapping, key) == key \in DOMAIN mapping


\* The lookups replaced by params.get(key, default).
Construct_defaults ==
    /\ pc = "ElasticNet"
    /\ regr' = ElasticNet(IF HasKey(params, "alpha") THEN params["alpha"] ELSE 1,
                          IF HasKey(params, "l1_ratio") THEN params["l1_ratio"] ELSE 1)
    /\ Goto("ElasticNet")
    /\ UNCHANGED <<fs, handles, params, data, split, metrics, r2, run, prev>>

\* l1_ratio hard coded instead of read from params.
Construct_hardcoded ==
    /\ pc = "ElasticNet"
    /\ IF HasKey(params, "alpha")
       THEN /\ regr' = ElasticNet(params["alpha"], 1)
            /\ Goto("ElasticNet")
       ELSE /\ regr' = regr
            /\ Raise("ElasticNet")
    /\ UNCHANGED <<fs, handles, params, data, split, metrics, r2, run, prev>>

\* line 17: regr = ElasticNet(alpha=params["alpha"], l1_ratio=params["l1_ratio"])
Construct ==
    /\ pc = "ElasticNet"
    /\ IF HasKey(params, "alpha") /\ HasKey(params, "l1_ratio")
       THEN /\ regr' = ElasticNet(params["alpha"], params["l1_ratio"])
            /\ Goto("ElasticNet")
       ELSE /\ regr' = regr
            /\ Raise("ElasticNet")
    /\ UNCHANGED <<fs, handles, params, data, split, metrics, r2, run, prev>>

\* line 18: regr.fit(X_train, y_train)
Fit ==
    /\ pc = "fit"
    /\ \/ /\ regr' = fit(regr, X_train, y_train)
          /\ Goto("fit")
       \/ /\ regr' = regr
          /\ Raise("fit")
    /\ UNCHANGED <<fs, handles, params, data, split, metrics, r2, run, prev>>

\* line 21: metrics = {}
InitMetrics ==
    /\ pc = "metrics"
    /\ metrics' = <<>>
    /\ Goto("metrics")
    /\ UNCHANGED <<fs, handles, params, data, split, regr, r2, run, prev>>

\* line 22: r2 = regr.score(X_test, y_test)
Score ==
    /\ pc = "score"
    /\ \/ /\ r2' = score(regr, X_test, y_test)
          /\ Goto("score")
       \/ /\ r2' = r2
          /\ Raise("score")
    /\ UNCHANGED <<fs, handles, params, data, split, regr, metrics, run, prev>>

\* line 23: metrics["r2"] = r2.item()
SetMetric ==
    /\ pc = "item"
    /\ metrics' = [k \in (DOMAIN metrics) \cup {"r2"} |->
                      IF k = "r2" THEN item(r2) ELSE metrics[k]]
    /\ Goto("item")
    /\ UNCHANGED <<fs, handles, params, data, split, regr, r2, run, prev>>

\* line 24: open("metrics.yaml", "w") creates or truncates the file.
OpenMetrics ==
    /\ pc = "open_metrics"
    /\ \/ /\ fs' = [fs EXCEPT ![METRICS] = File("empty", <<>>)]
          /\ handles' = handles \cup {METRICS}
          /\ Goto("open_metrics")
       \/ /\ UNCHANGED <<fs, handles>>
          /\ Raise("open_metrics")
    /\ UNCHANGED <<params, data, split, regr, metrics, r2, run, prev>>

\* line 25: yaml.dump(metrics, f), then the with block closes f, also
\* when the dump raises after writing only part of the document.
DumpMetrics ==
    /\ pc = "yaml_dump"
    /\ METRICS \in handles
    /\ \/ /\ fs' = [fs EXCEPT ![METRICS] = File("complete", yaml_dump(metrics))]
          /\ Goto("yaml_dump")
       \/ /\ \E part \in Prefixes(yaml_dump(metrics)) :
                fs' = [fs EXCEPT ![METRICS] =
                          File(IF part = <<>> THEN "empty" ELSE "partial", part)]
          /\ Raise("yaml_dump")
    /\ handles' = handles \ {METRICS}
    /\ UNCHANGED <<params, data, split, regr, metrics, r2, run, prev>>


\* The dump retried in a loop instead of ending the script.
DumpModel_again ==
    /\ pc = "joblib_dump"
    /\ fs' = [fs EXCEPT ![MODEL] = File("complete", joblib_dump(regr))]
    /\ pc' = "joblib_dump"
    /\ log' = Append(log, Event("joblib_dump", TRUE))
    /\ UNCHANGED <<handles, params, data, split, regr, metrics, r2, run, prev>>

\* line 28: joblib.dump(regr, "model.joblib"); it may raise before the
\* file is opened or after part of the pickle is written.
DumpModel ==
    /\ pc = "joblib_dump"
    /\ \/ /\ fs' = [fs EXCEPT ![MODEL] = File("complete", joblib_dump(regr))]
          /\ Goto("joblib_dump")
       \/ /\ \/ fs' = fs
             \/ \E part \in Prefixes(joblib_dump(regr)) :
                   fs' = [fs EXCEPT ![MODEL] =
                             File(IF part = <<>> THEN "empty" ELSE "partial", part)]
          /\ Raise("joblib_dump")
    /\ UNCHANGED <<handles, params, data, split, regr, metrics, r2, run, prev>>

Next ==
    \/ OpenParams
    \/ SafeLoad
    \/ LoadData
    \/ Split
    \/ Construct
    \/ Fit
    \/ InitMetrics
    \/ Score
    \/ SetMetric
    \/ OpenMetrics
    \/ DumpMetrics
    \/ DumpModel

Spec == Init /\ [][Next]_vars

\* A run is one process: the interpreter always takes its next step.
FairSpec == Spec /\ WF_vars(Next)

\* ------------------------------------------------------------ repeated runs
\* What a finished run leaves behind for comparison with the next one.
Summary ==
    [alpha |-> params["alpha"], l1_ratio |-> params["l1_ratio"],
     X_train |-> X_train, X_test |-> X_test,
     y_train |-> y_train, y_test |-> y_test,
     metrics |-> fs[METRICS].text]

\* The script is started again (python train.py) after the previous process
\* ended; the files are what the previous run left, and params.yaml may
\* have been edited in between.
Rerun ==
    /\ pc \in Terminal
    /\ run < MaxRuns
    /\ run' = run + 1
    /\ prev' = IF pc = "done" THEN Summary ELSE prev
    /\ \E pf \in ParamsFiles :
          fs' = [f \in Files |-> IF f = PARAMS THEN pf ELSE Age(fs[f])]
    /\ pc' = Program[1]
    /\ handles' = {}
    /\ params' = None
    /\ data' = None
    /\ X_train' = <<>> /\ X_test' = <<>> /\ y_train' = <<>> /\ y_test' = <<>>
    /\ regr' = None
    /\ metrics' = None
    /\ r2' = None
    /\ log' = <<>>

NextRuns == Next \/ Rerun

SpecRuns == Init /\ [][NextRuns]_vars

\* ------------------------------------------------------------- properties
Attempted(step) == \E i \in 1..Len(log) : log[i].step = step

Did(step) == \E i \in 1..Len(log) : log[i].step = step /\ log[i].ok

Failed == \E i \in 1..Len(log) : ~log[i].ok

Count(h, step) == Cardinality({i \in 1..Len(h) : h[i].step = step})

\* No write of this run has touched the file.
Untouched(f) == fs[f].state \in {"absent", "stale"}

Keys(text) == {text[i][1] : i \in 1..Len(text)}

ConfigUnusable ==
    \/ fs[PARAMS].state = "absent"
    \/ "alpha" \notin Keys(fs[PARAMS].text)
    \/ "l1_ratio" \notin Keys(fs[PARAMS].text)

Fitted(model) == DOMAIN model = {"alpha", "l1_ratio", "coef_", "intercept_"}

\* C1: when params.yaml is missing or lacks alpha or l1_ratio, the run never
\* reaches the fit: no estimator is built from substituted values, neither
\* output file is touched, and the run ends aborted.
C1_UnusableConfigAborts ==
    /\ [](ConfigUnusable =>
            /\ pc # "done"
            /\ pc \notin Terminal => Index(pc) <= Index("ElasticNet")
            /\ ~Attempted("fit")
            /\ regr = None
            /\ Untouched(METRICS) /\ Untouched(MODEL))
    /\ (ConfigUnusable ~> pc = "aborted")

\* A run that found params.yaml without a key and died on the lookup at
\* line 17, after the dataset was loaded and split.
C1_Witness ==
    /\ pc = "aborted"
    /\ fs[PARAMS].state = "stale"
    /\ Keys(fs[PARAMS].text) = {"l1_ratio"}
    /\ log[Len(log)] = Event("ElasticNet", FALSE)
    /\ X_train # <<>>
    /\ Untouched(METRICS) /\ Untouched(MODEL)

\* What a run that ran to its end has written.
Artifacts ==
    /\ fs[METRICS].state = "complete"
    /\ safe_load(fs[METRICS].text) = [r2 |-> score(regr, X_test, y_test).value]
    /\ fs[MODEL].state = "complete"
    /\ Fitted(regr)
    /\ joblib_load(fs[MODEL].text) = regr
    /\ {f \in Files : ~Untouched(f)} = {METRICS, MODEL}

\* C2: a run in which no step fails terminates, and then metrics.yaml holds
\* the mapping with the single key r2 whose value is the holdout score of
\* the fitted model, model.joblib holds that model, and no other file was
\* written.
C2_TwoArtifacts ==
    /\ <>(Failed \/ pc = "done")
    /\ [](pc = "done" => Artifacts)

C2_Witness ==
    /\ pc = "done"
    /\ ~Failed
    /\ fs[METRICS].text = << <<"r2", 47>> >>
    /\ Len(fs[MODEL].text) = 4

WriteSteps == {"open_metrics", "yaml_dump", "joblib_dump"}

\* C3: the configuration read completes before the fit starts, the fit
\* completes before the score starts, and both complete before either
\* artifact is opened or written.
C3_StepOrder ==
    /\ (pc = "fit" \/ Attempted("fit")) => Did("safe_load") /\ params # None
    /\ (pc = "score" \/ Attempted("score")) => Did("fit") /\ Fitted(regr)
    /\ (\/ pc \in WriteSteps
        \/ \E w \in WriteSteps : Attempted(w)
        \/ ~Untouched(METRICS)
        \/ ~Untouched(MODEL)) => Did("fit") /\ Did("score") /\ r2 # None

C3_Witness ==
    /\ pc = "done"
    /\ [i \in 1..Len(log) |-> log[i].step] = Program
    /\ ~Untouched(METRICS) /\ ~Untouched(MODEL)

\* C4: an error in any step is unrecovered: the step that raised leaves the
\* run aborted, nothing is executed from the aborted state, and no step is
\* executed twice.
C4_ErrorsAreFatal ==
    [][/\ pc # "aborted"
       /\ log' # log => (~log'[Len(log')].ok => pc' = "aborted")
       /\ Failed => FALSE
       /\ \A i \in 1..Len(Program) : Count(log', Program[i]) <= 1]_vars

\* A run that failed in the fit after five steps went through.
C4_Witness ==
    /\ pc = "aborted"
    /\ Len(log) = 6
    /\ log[6] = Event("fit", FALSE)
    /\ \A i \in 1..5 : log[i].ok

\* C5: two runs with the same alpha and l1_ratio split the dataset into the
\* same partitions and write the same metrics.yaml; whatever else differs
\* between the runs (files left from before, how the earlier run ended)
\* changes neither.
C5_Determinism ==
    /\ (prev # None /\ Did("train_test_split")) =>
          /\ X_train = prev.X_train /\ X_test = prev.X_test
          /\ y_train = prev.y_train /\ y_test = prev.y_test
    /\ (/\ prev # None
        /\ Did("yaml_dump")
        /\ params["alpha"] = prev.alpha
        /\ params["l1_ratio"] = prev.l1_ratio) => fs[METRICS].text = prev.metrics

\* A second run that finished with the configuration of the first.
C5_Witness ==
    /\ run = 2
    /\ pc = "done"
    /\ prev # None
    /\ prev.alpha = 2 /\ params["alpha"] = 2
    /\ prev.l1_ratio = 1 /\ params["l1_ratio"] = 1
    /\ fs[METRICS].text = << <<"r2", 7>> >>

\* C6: the estimator is not changed once it is scored, and the model read
\* back from model.joblib is that estimator: it predicts the same values on
\* the holdout rows and scores the r2 that metrics.yaml holds.
C6_RoundTrip ==
    /\ [](Did("score") => r2 = score(regr, X_test, y_test))
    /\ [](pc = "done" =>
            LET loaded == joblib_load(fs[MODEL].text)
            IN  /\ loaded = regr
                /\ predict(loaded, X_test) = predict(regr, X_test)
                /\ safe_load(fs[METRICS].text) =
                      [r2 |-> item(score(loaded, X_test, y_test))])
    /\ [][Did("score") => regr' = regr]_vars

C6_Witness ==
    /\ pc = "done"
    /\ joblib_load(fs[MODEL].text).coef_ = 8
    /\ predict(joblib_load(fs[MODEL].text), X_test) = <<56, 32>>
    /\ fs[METRICS].text = << <<"r2", 73>> >>

\* C7: params.yaml is loaded once, params stays what was loaded, and the
\* estimator carries exactly the alpha and l1_ratio of the file.
C7_HyperparametersFromConfig ==
    /\ Count(log, "safe_load") <= 1
    /\ Did("safe_load") => params = safe_load(fs[PARAMS].text)
    /\ regr # None =>
          /\ Count(log, "safe_load") = 1
          /\ HasKey(safe_load(fs[PARAMS].text), "alpha")
          /\ HasKey(safe_load(fs[PARAMS].text), "l1_ratio")
          /\ regr.alpha = safe_load(fs[PARAMS].text)["alpha"]
          /\ regr.l1_ratio = safe_load(fs[PARAMS].text)["l1_ratio"]

\* A fitted estimator whose hyperparameters are not scikit-learn's defaults.
C7_Witness ==
    /\ Did("fit")
    /\ fs[PARAMS].text = << <<"alpha", 2>>, <<"l1_ratio", 0>> >>
    /\ regr.alpha = 2
    /\ regr.l1_ratio = 0
    /\ Fitted(regr)

\* C8: metrics.yaml is opened for writing once and dumped once, and
\* model.joblib is dumped once, as the last step: nothing runs after it.
C8_WrittenOnce ==
    /\ [](/\ \A w \in WriteSteps : Count(log, w) <= 1
          /\ pc = "done" => \A w \in WriteSteps : Count(log, w) = 1
          /\ pc = "done" => log[Len(log)] = Event("joblib_dump", TRUE)
          /\ Did("joblib_dump") => pc = "done")
    /\ [][pc # "done"]_vars

C8_Witness ==
    /\ pc = "done"
    /\ fs[METRICS].state = "complete"
    /\ fs[MODEL].state = "complete"
    /\ Count(log, "joblib_dump") = 1

\* C9: at most one handle is open; the params.yaml handle is open only
\* while safe_load runs and the metrics.yaml handle only while yaml.dump
\* runs, so both are closed before the next step, also when their step
\* raised.
C9_ScopedHandles ==
    /\ Cardinality(handles) <= 1
    /\ PARAMS \in handles => pc = "safe_load"
    /\ METRICS \in handles => pc = "yaml_dump"
    /\ (pc = "load_diabetes" \/ Attempted("load_diabetes")) => PARAMS \notin handles
    /\ (pc = "joblib_dump" \/ Attempted("joblib_dump")) => METRICS \notin handles
    /\ pc \in Terminal => handles = {}

\* safe_load raised on a malformed params.yaml and the handle is closed.
C9_Witness ==
    /\ pc = "aborted"
    /\ log = <<Event("open_params", TRUE), Event("safe_load", FALSE)>>
    /\ ~IsWellFormed(fs[PARAMS].text)
    /\ handles = {}

\* C10: whenever model.joblib has been written, also partly, metrics.yaml
\* is complete and closed.
C10_MetricsBeforeModel ==
    ~Untouched(MODEL) => fs[METRICS].state = "complete" /\ METRICS \notin handles

\* An aborted run that left metrics.yaml and a partial model.joblib.
C10_Witness ==
    /\ pc = "aborted"
    /\ fs[MODEL].state = "partial"
    /\ fs[METRICS].state = "complete"
====
